---- MODULE Spec2Model ----
(***************************************************************************)
(* Request execution and error normalisation core of PenguinMod-ApiModule  *)
(* (utils.doBasicRequest, utils.doFormDataRequest, utils.assert, the       *)
(* PenguinModAPIError class and the PenguinModAPI client that owns the     *)
(* token, the base url and the injectOptions hook).                        *)
(*                                                                         *)
(* One call is followed from its start to the settlement of the promise    *)
(* it returns.  The environment (fetch, Response.text, Response.arrayBuffer*)
(* and axios) chooses its outcome at each suspension point.                *)
(***************************************************************************)
EXTENDS Integers, Sequences, FiniteSets, TLC

\* ------------------------------------------------------------------------
\* JavaScript values
\* ------------------------------------------------------------------------

\* null and undefined in a string-typed slot (method, body, header value, cause)
Null == "<null>"
Undefined == "<undefined>"
\* undefined in a number-typed slot (httpCode)
UndefinedNumber == -1

\* A JavaScript value: its type tag t, its rendering s and the value of its
\* `error` property (Undefined when it has none).
JValue(t, s, e) == [t |-> t, s |-> s, error |-> e]
JNull == JValue("null", "null", Undefined)
JUndefined == JValue("undefined", "undefined", Undefined)
JString(s) == JValue("string", s, Undefined)
JNumber(s) == JValue("number", s, Undefined)
JObject(s, e) == JValue("object", s, e)
JBytes(s) == JValue("arraybuffer", s, Undefined)

\* ToBoolean of a value
Truthy(v) ==
    /\ v.t \notin {"null", "undefined"}
    /\ ~(v.t = "string" /\ v.s = "")
    /\ ~(v.t = "number" /\ v.s = "0")
    /\ ~(v.t = "boolean" /\ v.s = "false")

\* ToBoolean of a string-typed slot
TruthyStr(s) == s \notin {Null, Undefined, ""}

\* The response bodies the remote service answers with.
Bodies ==
    { "",
      "not-json",
      "null",
      "0",
      "{\"a\":1}",
      "{\"error\":\"ProjectNotFound\"}",
      "{\"error\":\"\"}",
      "{\"error\":\"Invalid word\"}" }

\* JSON.parse on those bodies: the parsed value, or the SyntaxError it throws.
JSONparse(text) ==
    CASE text = "null" -> [ok |-> TRUE, val |-> JNull, exc |-> Null]
      [] text = "0" -> [ok |-> TRUE, val |-> JNumber("0"), exc |-> Null]
      [] text = "{\"a\":1}" ->
            [ok |-> TRUE, val |-> JObject(text, Undefined), exc |-> Null]
      [] text = "{\"error\":\"ProjectNotFound\"}" ->
            [ok |-> TRUE, val |-> JObject(text, "ProjectNotFound"), exc |-> Null]
      [] text = "{\"error\":\"\"}" ->
            [ok |-> TRUE, val |-> JObject(text, ""), exc |-> Null]
      [] text = "{\"error\":\"Invalid word\"}" ->
            [ok |-> TRUE, val |-> JObject(text, "Invalid word"), exc |-> Null]
      [] OTHER -> [ok |-> FALSE, val |-> JUndefined, exc |-> "SyntaxError"]

\* utils.safeParseJSON(possibleJson) with forceObject omitted
safeParseJSON(possibleJson) ==
    IF JSONparse(possibleJson).ok
    THEN JSONparse(possibleJson).val
    ELSE JString(possibleJson)

\* ------------------------------------------------------------------------
\* PenguinModAPIError
\* ------------------------------------------------------------------------

UNKNOWN == "Unknown"
UNKNOWN_CODE == 0
\* The class declares the statics UNKNOWN and UNKNOWN_CODE only; reading
\* PenguinModAPIError.ASSERT_FAILED yields undefined.
ErrorStatics == {"UNKNOWN", "UNKNOWN_CODE"}
ASSERT_FAILED ==
    IF "ASSERT_FAILED" \in ErrorStatics THEN UNKNOWN_CODE ELSE UndefinedNumber

NullResponse == [kind |-> "null"]
UndefinedResponse == [kind |-> "undefined"]
Response(status, body) ==
    [kind |-> "response", status |-> status,
     ok |-> (status >= 200 /\ status <= 299), body |-> body]

NullOptions == [kind |-> "null"]

\* new PenguinModAPIError(message, detail, httpCode, data, parsingError,
\*                        url, request, response, error)
PenguinModAPIError(message, detail, httpCode, data, parsingError, url, request, resp, error) ==
    [name |-> "PenguinModAPIError",
     message |-> message,
     cause |-> error,
     detail |-> detail,
     data |-> data,
     httpCode |-> httpCode,
     parsing |-> parsingError,
     url |-> url,
     request |-> request,
     response |-> resp]

NoError == [name |-> "none"]

\* ------------------------------------------------------------------------
\* Request options and the injectOptions hook
\* ------------------------------------------------------------------------

ToolingHeader == "PenguinMod-Tooling"
ToolingValue == "PenguinMod-ApiModule"
HeaderNames == {ToolingHeader, "Content-Type"}
EmptyHeaders == [h \in HeaderNames |-> Undefined]

Options(method, hasHeaders, headers, body) ==
    [kind |-> "object", method |-> method, hasHeaders |-> hasHeaders,
     headers |-> headers, body |-> body]

\* {}
EmptyOptions == Options(Undefined, FALSE, EmptyHeaders, Undefined)

\* { method: "POST", headers: { "Content-Type": "application/json" }, body }
JsonPostOptions ==
    Options("POST", TRUE,
            [EmptyHeaders EXCEPT !["Content-Type"] = "application/json"],
            "{\"token\":...}")

\* { method: "POST" }
PostOptions == Options("POST", FALSE, EmptyHeaders, Undefined)

\* The options the callers of the core pass.
CallerOptions == {NullOptions, JsonPostOptions, PostOptions}

\* What an overriding injectOptions returns instead of its argument.
SpoofedOptions ==
    Options("PUT", TRUE,
            [EmptyHeaders EXCEPT ![ToolingHeader] = "Spoofed"], "hooked body")
HeaderlessOptions == Options(Undefined, FALSE, EmptyHeaders, "hooked body")

\* The implementations of injectOptions: the class's own ("default",
\* returns its argument) and overrides that return nothing, options that
\* carry a different tooling header, or options without headers.
Hooks == {"default", "nothing", "spoof", "headerless"}

injectOptions(hook, options, url) ==
    CASE hook = "default" -> options
      [] hook = "nothing" -> NullOptions
      [] hook = "spoof" -> SpoofedOptions
      [] hook = "headerless" -> HeaderlessOptions

\* PrepareOptions that leaves a tooling header it finds in place
PrepareOptions_KeepExisting(hook, options, url) ==
    LET injected == injectOptions(hook, options, url)
        o1 == IF injected.kind = "null" THEN EmptyOptions ELSE injected
        o2 == IF ~o1.hasHeaders
              THEN [o1 EXCEPT !.hasHeaders = TRUE, !.headers = EmptyHeaders]
              ELSE o1
    IN  IF o2.headers[ToolingHeader] = Undefined
        THEN [o2 EXCEPT !.headers[ToolingHeader] = ToolingValue]
        ELSE o2

\* PrepareOptions that calls the hook and keeps the options it was given
PrepareOptions_IgnoresHookResult(hook, options, url) ==
    LET o1 == IF options.kind = "null" THEN EmptyOptions ELSE options
        o2 == IF ~o1.hasHeaders
              THEN [o1 EXCEPT !.hasHeaders = TRUE, !.headers = EmptyHeaders]
              ELSE o1
    IN  [o2 EXCEPT !.headers[ToolingHeader] = ToolingValue]

\* Lines 329-332 of doBasicRequest (393-396 of doFormDataRequest):
\*   options = apiClass.injectOptions(options, url);
\*   if (!options) options = {};
\*   if (!options.headers) options.headers = {};
\*   options.headers["PenguinMod-Tooling"] = "PenguinMod-ApiModule";
PrepareOptions(hook, options, url) ==
    LET injected == injectOptions(hook, options, url)
        o1 == IF injected.kind = "null" THEN EmptyOptions ELSE injected
        o2 == IF ~o1.hasHeaders
              THEN [o1 EXCEPT !.hasHeaders = TRUE, !.headers = EmptyHeaders]
              ELSE o1
    IN  [o2 EXCEPT !.headers[ToolingHeader] = ToolingValue]

\* ------------------------------------------------------------------------
\* RequestType
\* ------------------------------------------------------------------------

RequestType ==
    [None |-> "none", Text |-> "text", JSON |-> "json", ArrayBuffer |-> "arrbuff"]
RequestTypes == {RequestType.None, RequestType.Text, RequestType.JSON,
                 RequestType.ArrayBuffer}

\* ------------------------------------------------------------------------
\* Promises and thrown values
\* ------------------------------------------------------------------------

\* What a call hands to its caller.  state: "pending", "resolved",
\* "rejected" (a promise), "thrown" (a synchronous throw) or "returned" (a
\* synchronous return).  kind says what the value is: "response" (the
\* Response handle), "value" (a JavaScript value), "PenguinModAPIError",
\* "Error" (a plain Error) or "string" (a bare string).
Outcome(state, kind, val, resp, err) ==
    [state |-> state, kind |-> kind, val |-> val, resp |-> resp, err |-> err]
Pending == Outcome("pending", "none", JUndefined, NullResponse, NoError)
ResolveValue(v) == Outcome("resolved", "value", v, NullResponse, NoError)
ResolveResponse(r) == Outcome("resolved", "response", JUndefined, r, NoError)
RejectError(e) == Outcome("rejected", "PenguinModAPIError", JUndefined, NullResponse, e)
RejectPlain(msg) == Outcome("rejected", "Error", JString(msg), NullResponse, NoError)
RejectString(s) == Outcome("rejected", "string", JString(s), NullResponse, NoError)
ThrowError(e) == Outcome("thrown", "PenguinModAPIError", JUndefined, NullResponse, e)
ThrowPlain(msg) == Outcome("thrown", "Error", JString(msg), NullResponse, NoError)
Returned == Outcome("returned", "value", JUndefined, NullResponse, NoError)

\* resolve(...) / reject(...) of a promise: only the first one takes effect.
Settle(p, q) == IF p.state = "pending" THEN q ELSE p

\* ------------------------------------------------------------------------
\* The callbacks of doBasicRequest
\* ------------------------------------------------------------------------

\* OnFetchRejected that rejects with the exception of fetch as it is
OnFetchRejected_RawError(url, options, err) == RejectPlain(err)

\* OnFetchRejected that drops the original exception
OnFetchRejected_NoCause(url, options, err) ==
    RejectError(PenguinModAPIError("FetchFailed", err, UNKNOWN_CODE, JNull,
                                   FALSE, url, options, NullResponse, Null))

\* fetch(url, options).then(...).catch(err => ...)
OnFetchRejected(url, options, err) ==
    RejectError(PenguinModAPIError("FetchFailed", err, UNKNOWN_CODE, JNull,
                                   FALSE, url, options, NullResponse, err))

\* The None branch without its resolve: the promise stays pending
OnOkNone_NeverResolves(resp) == Pending

\* response.ok and requestType === RequestType.None
OnOkNone(resp) == ResolveResponse(resp)

\* response.arrayBuffer().then(arr_buff => resolve(arr_buff))
OnOkArrayBuffer(arr_buff) == ResolveValue(arr_buff)

\* The catch of arrayBuffer() with the message of the catch of text()
OnOkArrayBufferFailed_TextMessage(url, options, resp, err) ==
    RejectError(PenguinModAPIError("ParseTextFailed", err, resp.status,
                                   JNull, TRUE, url, options, resp, err))

\* response.arrayBuffer() ... .catch(err => ...)
OnOkArrayBufferFailed(url, options, resp, err) ==
    RejectError(PenguinModAPIError("ParseArrayBufferFailed", err, resp.status,
                                   JNull, TRUE, url, options, resp, err))

\* OnOkText that resolves with whatever safeParseJSON gives, the raw text
\* when the body is not JSON
OnOkText_SafeParse(requestType, url, options, resp, text) ==
    IF requestType = RequestType.JSON
    THEN ResolveValue(safeParseJSON(text))
    ELSE ResolveValue(JString(text))

\* OnOkText that treats a parsed body with an `error` field as a failure
OnOkText_ErrorFieldRejects(requestType, url, options, resp, text) ==
    IF requestType = RequestType.JSON
    THEN IF JSONparse(text).ok
         THEN IF TruthyStr(JSONparse(text).val.error)
              THEN RejectError(PenguinModAPIError(
                       JSONparse(text).val.error, text, resp.status,
                       JSONparse(text).val, FALSE, url, options, resp, Null))
              ELSE ResolveValue(JSONparse(text).val)
         ELSE RejectError(PenguinModAPIError(
                  "ParseJSONFailed", JSONparse(text).exc, resp.status,
                  JString(text), TRUE, url, options, resp,
                  JSONparse(text).exc))
    ELSE ResolveValue(JString(text))

\* response.text().then(text => ...) on a response that is ok
OnOkText(requestType, url, options, resp, text) ==
    IF requestType = RequestType.JSON
    THEN IF JSONparse(text).ok
         THEN ResolveValue(JSONparse(text).val)
         ELSE \* reject(pmError) in the catch, then `return resolve(text)`
              Settle(RejectError(PenguinModAPIError(
                         "ParseJSONFailed", JSONparse(text).exc, resp.status,
                         JString(text), TRUE, url, options, resp,
                         JSONparse(text).exc)),
                     ResolveValue(JString(text)))
    ELSE ResolveValue(JString(text))

\* OnTextFailed that does not flag the error as a parsing error
OnTextFailed_NotParsing(url, options, resp, err) ==
    RejectError(PenguinModAPIError("ParseTextFailed", err, resp.status, JNull,
                                   FALSE, url, options, resp, err))

\* response.text() ... .catch(err => ...), on either branch of response.ok
OnTextFailed(url, options, resp, err) ==
    RejectError(PenguinModAPIError("ParseTextFailed", err, resp.status, JNull,
                                   TRUE, url, options, resp, err))

\* OnErrorText that never looks for an `error` field in the body
OnErrorText_RawTextOnly(url, options, resp, text) ==
    RejectError(PenguinModAPIError(IF text # "" THEN text ELSE UNKNOWN, text,
                                   resp.status, safeParseJSON(text), FALSE,
                                   url, options, resp, Null))

\* response.text().then(text => ...) on a response that is not ok
OnErrorText(url, options, resp, text) ==
    LET jsonResp == safeParseJSON(text)
        errorMsg == IF Truthy(jsonResp) /\ TruthyStr(jsonResp.error)
                    THEN jsonResp.error
                    ELSE IF text # "" THEN text ELSE UNKNOWN
    IN  RejectError(PenguinModAPIError(errorMsg, text, resp.status, jsonResp,
                                       FALSE, url, options, resp, Null))

\* ------------------------------------------------------------------------
\* utils.assert
\* ------------------------------------------------------------------------

\* assert(val, url, message = "AssertFailed", detail = "Assert failed."):
\* the value it throws when val is falsy.
AssertError(url, message, detail) ==
    PenguinModAPIError(IF message = Undefined THEN "AssertFailed" ELSE message,
                       IF detail = Undefined THEN "Assert failed." ELSE detail,
                       ASSERT_FAILED, JNull, FALSE, url, NullOptions,
                       NullResponse, Null)

assertOutcome(val, url, message, detail) ==
    IF ~val THEN ThrowError(AssertError(url, message, detail)) ELSE Returned

\* ------------------------------------------------------------------------
\* doFormDataRequest
\* ------------------------------------------------------------------------

\* axiosResponseType of doFormDataRequest
axiosResponseType(requestType) ==
    CASE requestType = RequestType.Text -> "text"
      [] requestType = RequestType.ArrayBuffer -> "arraybuffer"
      [] requestType = RequestType.JSON -> "json"
      [] OTHER -> Null

\* response.data as axios delivers it for a body: the body string for
\* "text", the bytes for "arraybuffer", and otherwise the parsed JSON or, when
\* the body is not JSON, the body string.
AxiosData(responseType, body) ==
    CASE responseType = "text" -> JString(body)
      [] responseType = "arraybuffer" -> JBytes(body)
      [] OTHER -> safeParseJSON(body)

\* The response object of axios (response, or err.response), as a value.
AxiosResponse(status, data) ==
    [t |-> "object", s |-> "[object Object]", error |-> Undefined,
     status |-> status, data |-> data]

\* What the awaited axios call rejects with.  No signal or cancel token is
\* passed to axios, so it is never a cancellation.
AxiosError(hasResponse, status, data) ==
    [isCancel |-> FALSE, name |-> "AxiosError",
     hasResponse |-> hasResponse, status |-> status, data |-> data]

\* The body of the try block after `await axios(...)` has a response.
OnAxiosResponse(url, options, status, responseData) ==
    LET jsonResp == IF responseData.t = "string"
                    THEN safeParseJSON(responseData.s)
                    ELSE responseData
    IN  IF Truthy(jsonResp) /\ TruthyStr(jsonResp.error)
        THEN RejectError(PenguinModAPIError(
                 jsonResp.error, responseData.s, status, responseData, FALSE,
                 url, options, UndefinedResponse, Undefined))
        ELSE IF responseData.t = "arraybuffer"
                /\ ~(status >= 200 /\ status < 400)
        THEN RejectError(PenguinModAPIError(
                 "FormDataRequestArrayBufferFailed",
                 "FormDataRequestArrayBufferFailed", status, responseData,
                 TRUE, url, options, UndefinedResponse, Undefined))
        ELSE ResolveValue(responseData)

\* The catch block without the status of the response the error carries
OnAxiosRejected_StatusUnknown(url, options, err) ==
    RejectError(PenguinModAPIError(
        "FormDataRequestFailed", "FormDataRequestFailed", UNKNOWN_CODE,
        JUndefined, FALSE, url, options, NullResponse, err.name))

\* The catch block, for an err that is not a PenguinModAPIError.
OnAxiosRejected(url, options, err) ==
    IF err.isCancel
    THEN RejectError(PenguinModAPIError(
             "FormDataRequestAborted", "FormDataRequestAborted", UNKNOWN_CODE,
             JNull, FALSE, url, options, NullResponse, err.name))
    ELSE LET errorMessage ==
                 IF err.hasResponse
                 THEN IF Truthy(err.data)
                      THEN IF TruthyStr(err.data.error)
                           THEN err.data.error
                           ELSE "FormDataRequestFailed"
                      ELSE "FormDataRequestFailed"
                 ELSE "FormDataRequestFailed"
             status == IF err.hasResponse THEN err.status ELSE UNKNOWN_CODE
         IN  RejectError(PenguinModAPIError(
                 "FormDataRequestFailed", errorMessage, status,
                 IF err.hasResponse
                 THEN AxiosResponse(err.status, err.data)
                 ELSE JUndefined,
                 FALSE, url, options, NullResponse, err.name))

\* ------------------------------------------------------------------------
\* Endpoint methods
\* ------------------------------------------------------------------------

Url(base, path) == [base |-> base, path |-> path]

\* `${apiUrl}${path}?token=${encodeURIComponent(token)}` (setPFP)
TokenUrl(base, path, t) == [base |-> base, path |-> path, token |-> t]

\* JSON.stringify({ token, ... }), which leaves an undefined token out
TokenBody(t) ==
    CASE t = "token-1" -> "{\"token\":\"token-1\",...}"
      [] t = "token-2" -> "{\"token\":\"token-2\",...}"
      [] OTHER -> "{...}"

\* The options an endpoint method builds around the token it reads
TokenPostOptions(t) == [JsonPostOptions EXCEPT !.body = TokenBody(t)]

\* The catch block of PenguinModAPIMisc.setProfanityList
setProfanityListCatch(p) ==
    IF p.state # "rejected" THEN p
    ELSE IF p.kind = "PenguinModAPIError" /\ Truthy(p.err.data)
            /\ p.err.data.error = "Invalid inner words object"
    THEN RejectString("InvalidFormatNonArray")
    ELSE IF p.kind = "PenguinModAPIError" /\ Truthy(p.err.data)
            /\ p.err.data.error = "Invalid word"
    THEN RejectString("InvalidFormatNonString")
    ELSE IF p.kind = "PenguinModAPIError" /\ Truthy(p.err.data)
            /\ p.err.data.error = "Invalid key"
    THEN RejectString("InvalidFormatExtra")
    ELSE p

\* What the operation op hands to its caller once the promise p of the
\* request it awaits has settled.  The endpoint methods return nothing.
Surface(op, p) ==
    CASE op = "setProfanityList" ->
            IF p.state = "resolved" THEN ResolveValue(JUndefined)
            ELSE setProfanityListCatch(p)
      [] op \in {"blockUser", "setPFP", "logout"} ->
            IF p.state = "resolved" THEN ResolveValue(JUndefined) ELSE p
      [] OTHER -> p

\* ------------------------------------------------------------------------
\* PenguinModDiscovery: extractQuery and createQuery
\* ------------------------------------------------------------------------

\* A string is a sequence of pieces of text.  ":" and " " are the two
\* characters the code looks for and "\t" is a whitespace character other
\* than the space; the other pieces are runs of letters, none a prefix of
\* another, so that two strings are equal exactly when their sequences are.
QueryChars == {"a", "query", "true", "false", ":", " ", "\t"}
Whitespace == {" ", "\t"}

\* The values of the fields of a SearchQuery: booleans and strings
QBoolean(b) ==
    [t |-> "boolean", s |-> IF b THEN <<"true">> ELSE <<"false">>]
QString(str) == [t |-> "string", s |-> str]
QUndefined == [t |-> "undefined", s |-> <<"undefined">>]
QTruthy(v) ==
    \/ v.t = "boolean" /\ v.s = <<"true">>
    \/ v.t = "string" /\ v.s # <<>>

\* An object: its own keys in insertion order and their values
EmptyObject == [keys |-> <<>>, vals |-> <<>>]
\* obj[k] = v that leaves a key that is already set alone
Assign_KeepFirst(obj, k, v) ==
    [keys |-> IF k \in DOMAIN obj.vals THEN obj.keys ELSE Append(obj.keys, k),
     vals |-> obj.vals @@ (k :> v)]

\* obj[k] = v
Assign(obj, k, v) ==
    [keys |-> IF k \in DOMAIN obj.vals THEN obj.keys ELSE Append(obj.keys, k),
     vals |-> (k :> v) @@ obj.vals]

\* The position of the first c in str, 0 when there is none
indexOf(str, c) ==
    IF \E i \in 1..Len(str) : str[i] = c
    THEN CHOOSE i \in 1..Len(str) :
             str[i] = c /\ \A j \in 1..(i - 1) : str[j] # c
    ELSE 0

\* String.prototype.includes, Array.prototype.includes
includes(seq, x) == \E i \in 1..Len(seq) : seq[i] = x

\* split that leaves out the empty pieces between adjacent separators
RECURSIVE split_SkipsEmpty(_, _)
split_SkipsEmpty(str, sep) ==
    LET i == indexOf(str, sep)
    IN  IF i = 0 THEN IF str = <<>> THEN <<>> ELSE <<str>>
        ELSE (IF i = 1 THEN <<>> ELSE <<SubSeq(str, 1, i - 1)>>)
             \o split_SkipsEmpty(SubSeq(str, i + 1, Len(str)), sep)

\* String.prototype.split(sep) for a separator of one character
RECURSIVE split(_, _)
split(str, sep) ==
    LET i == indexOf(str, sep)
    IN  IF i = 0 THEN <<str>>
        ELSE <<SubSeq(str, 1, i - 1)>>
             \o split(SubSeq(str, i + 1, Len(str)), sep)

\* Array.prototype.join(sep)
RECURSIVE join(_, _)
join(arr, sep) ==
    IF arr = <<>> THEN <<>>
    ELSE IF Len(arr) = 1 THEN arr[1]
    ELSE arr[1] \o <<sep>> \o join(Tail(arr), sep)

\* String.prototype.trim
RECURSIVE trim(_)
trim(str) ==
    IF str # <<>> /\ str[1] \in Whitespace THEN trim(Tail(str))
    ELSE IF str # <<>> /\ str[Len(str)] \in Whitespace
    THEN trim(SubSeq(str, 1, Len(str) - 1))
    ELSE str

\* word.split(/:(.*)/s) on the last colon instead of the first
splitModifier_LastColon(word) ==
    LET i == CHOOSE i \in 1..Len(word) :
                 word[i] = ":" /\ \A j \in (i + 1)..Len(word) : word[j] # ":"
    IN  [modifier |-> SubSeq(word, 1, i - 1),
         value |-> SubSeq(word, i + 1, Len(word))]

\* const [modifier, value] = word.split(/:(.*)/s), for a word with a colon
splitModifier(word) ==
    LET i == indexOf(word, ":")
    IN  [modifier |-> SubSeq(word, 1, i - 1),
         value |-> SubSeq(word, i + 1, Len(word))]

\* limitTags: null, or an array of modifier names
NullTags == [kind |-> "null", items |-> <<>>]
Tags(items) == [kind |-> "array", items |-> items]

\* isAllowed that treats limitTags as a blacklist whatever whitelist is
isAllowed_AlwaysBlacklist(limitTags, whitelist, modifier) ==
    IF limitTags.kind = "null" THEN TRUE
    ELSE ~includes(limitTags.items, modifier)

\* isAllowed
isAllowed(limitTags, whitelist, modifier) ==
    IF limitTags.kind = "null" THEN TRUE
    ELSE IF QTruthy(whitelist) THEN includes(limitTags.items, modifier)
    ELSE ~includes(limitTags.items, modifier)

\* castedValue
castedValue(value) ==
    IF value = <<"true">> THEN QBoolean(TRUE)
    ELSE IF value = <<"false">> THEN QBoolean(FALSE)
    ELSE IF trim(value) = <<>> THEN QBoolean(TRUE)
    ELSE QString(value)

\* The loop of extractQuery over the words not yet looked at
RECURSIVE extractWords(_, _, _, _, _)
extractWords(words, limitTags, whitelist, cleanQuery, resultingQuery) ==
    IF words = <<>>
    THEN [cleanQuery |-> cleanQuery, resultingQuery |-> resultingQuery]
    ELSE LET word == Head(words)
             parts == splitModifier(word)
         IN  IF includes(word, ":")
                /\ isAllowed(limitTags, whitelist, parts.modifier)
             THEN extractWords(Tail(words), limitTags, whitelist, cleanQuery,
                      Assign(resultingQuery, parts.modifier,
                             castedValue(parts.value)))
             ELSE extractWords(Tail(words), limitTags, whitelist,
                      Append(cleanQuery, word), resultingQuery)

\* extractQuery that returns { query: ..., ...resultingQuery }: a modifier
\* named query wins over the free text
extractQuery_ModifierWins(query, limitTags, whitelist) ==
    LET words == split(query, " ")
        loop == extractWords(words, limitTags, whitelist, <<>>, EmptyObject)
    IN  IF <<"query">> \in DOMAIN loop.resultingQuery.vals
        THEN loop.resultingQuery
        ELSE Assign(loop.resultingQuery, <<"query">>,
                    QString(join(loop.cleanQuery, " ")))

\* PenguinModDiscovery.extractQuery(query, limitTags, whitelist)
extractQuery(query, limitTags, whitelist) ==
    LET words == split(query, " ")
        loop == extractWords(words, limitTags, whitelist, <<>>, EmptyObject)
    IN  Assign(loop.resultingQuery, <<"query">>,
               QString(join(loop.cleanQuery, " ")))

\* The loop of createQuery without the colon between modifier and value
RECURSIVE createWords_NoColon(_, _, _)
createWords_NoColon(keys, searchQuery, newString) ==
    IF keys = <<>> THEN newString
    ELSE LET modifier == Head(keys)
         IN  IF modifier = <<"query">>
             THEN createWords_NoColon(Tail(keys), searchQuery, newString)
             ELSE createWords_NoColon(Tail(keys), searchQuery,
                      Append(newString,
                             modifier \o searchQuery.vals[modifier].s))

\* The loop of createQuery over the keys not yet looked at
RECURSIVE createWords(_, _, _)
createWords(keys, searchQuery, newString) ==
    IF keys = <<>> THEN newString
    ELSE LET modifier == Head(keys)
         IN  IF modifier = <<"query">>
             THEN createWords(Tail(keys), searchQuery, newString)
             ELSE createWords(Tail(keys), searchQuery,
                      Append(newString,
                             modifier \o <<":">>
                             \o searchQuery.vals[modifier].s))

\* createQuery that appends the words of query even when query is empty
createQuery_AlwaysAppends(searchQuery) ==
    LET newString == createWords(searchQuery.keys, searchQuery, <<>>)
        text == searchQuery.vals[<<"query">>].s
    IN  join(newString \o split(text, " "), " ")

\* PenguinModDiscovery.createQuery(searchQuery)
createQuery(searchQuery) ==
    LET newString == createWords(searchQuery.keys, searchQuery, <<>>)
        text == searchQuery.vals[<<"query">>].s
    IN  join(IF text # <<>> THEN newString \o split(text, " ")
             ELSE newString, " ")

\* ------------------------------------------------------------------------
\* State
\* ------------------------------------------------------------------------

VARIABLES
    token,      \* PenguinModAPI.token
    apiUrl,     \* PenguinModAPI.apiUrl
    pc,         \* where the current call is: "idle", "fetch", "text",
                \* "arrayBuffer", "axios" or "done"
    call,       \* the operation called and its arguments
    options,    \* the local variable `options` of the request function
    log,        \* what the call did and what happened to it, in order: the
                \* invocations of injectOptions, the requests handed to fetch
                \* or axios, and the settlements of fetch, text, arrayBuffer
                \* and axios
    response,   \* the Response that fetch resolved with
    promise,    \* the promise returned by the request function
    surfaced,   \* what the operation called hands to its caller
    codec       \* the search query being converted by PenguinModDiscovery:
                \* the arguments of extractQuery and the values computed
                \* from them so far

vars ==
    <<token, apiUrl, pc, call, options, log, response, promise, surfaced,
      codec>>

Tokens == {Undefined, "token-1", "token-2"}
ApiUrls == {"https://projects.penguinmod.com/api", "http://localhost:8080/api"}
Statuses == {200, 404, 500}
FetchErrors == {"TypeError: fetch failed"}
ReadErrors == {"TypeError: body stream error"}
FormDatas == {"FormData{picture}"}

\* The inputs of the query codec
MaxQueryLen == 4
QueryStrings == UNION {[1..n -> QueryChars] : n \in 0..MaxQueryLen}
LimitTags == {NullTags, Tags(<<>>), Tags(<< <<"a">> >>)}
Whitelists == {QUndefined, QBoolean(TRUE), QBoolean(FALSE)}

\* No query is being converted.
NoQuery ==
    [pc |-> "none", query |-> <<>>, limitTags |-> NullTags,
     whitelist |-> QUndefined, extracted |-> EmptyObject, created |-> <<>>,
     again |-> EmptyObject]

NoCall ==
    [op |-> "none", url |-> Url("", ""), options |-> NullOptions,
     hasApi |-> FALSE, requestType |-> Null, hook |-> "default",
     formData |-> Undefined, args |-> <<>>]

Call(op, url, opts, hasApi, requestType, hook, formData) ==
    [op |-> op, url |-> url, options |-> opts, hasApi |-> hasApi,
     requestType |-> requestType, hook |-> hook, formData |-> formData,
     args |-> <<>>]

\* Entries of the log
HookEntry(opts, url) == [ev |-> "injectOptions", options |-> opts, url |-> url]
RequestEntry(via, url, method, headers, body) ==
    [ev |-> via, url |-> url, method |-> method, headers |-> headers,
     body |-> body]
SettledEntry(ev, exc) == [ev |-> ev, exc |-> exc]

\* The state a call starts from.
Fresh ==
    /\ pc = "idle"
    /\ call = NoCall
    /\ options = NullOptions
    /\ log = <<>>
    /\ response = NullResponse
    /\ promise = Pending
    /\ surfaced = Pending

\* new PenguinModAPI(options)
Init ==
    /\ token \in Tokens
    /\ apiUrl \in ApiUrls
    /\ Fresh
    /\ codec = NoQuery

\* The call is over: the request function's promise is p.
Finish(op, p) ==
    /\ promise' = p
    /\ surfaced' = Surface(op, p)
    /\ pc' = "done"

\* setToken that also rewrites the token of the request in flight
setToken_RewritesInFlight(t) ==
    /\ token' = t
    /\ log' = [i \in DOMAIN log |->
                 IF log[i].ev = "fetch"
                 THEN [log[i] EXCEPT !.body = TokenBody(t)]
                 ELSE log[i]]
    /\ UNCHANGED <<codec, apiUrl, pc, call, options, response, promise, surfaced>>

\* PenguinModAPI.setToken
setToken(t) ==
    /\ token' = t
    /\ UNCHANGED <<codec, apiUrl, pc, call, options, log, response, promise, surfaced>>

\* PenguinModAPI.setApiUrl
setApiUrl(u) ==
    /\ apiUrl' = u
    /\ UNCHANGED <<codec, token, pc, call, options, log, response, promise, surfaced>>

\* ------------------------------------------------------------------------
\* doBasicRequest(url, options, apiClass, requestType)
\* ------------------------------------------------------------------------

\* The synchronous part: the guard on apiClass, the hook, the header and the
\* call of fetch inside the promise executor.
BasicStart(op, url, opts, hasApi, requestType, hook) ==
    /\ call' = Call(op, url, opts, hasApi, requestType, hook, Undefined)
    /\ response' = NullResponse
    /\ IF ~hasApi
       THEN /\ UNCHANGED <<options, log>>
            /\ Finish(op, ThrowPlain("Provide apiClass to doBasicRequest"))
       ELSE /\ options' = PrepareOptions(hook, opts, url)
            /\ log' = log \o
                   << HookEntry(opts, url),
                      RequestEntry("fetch", url, options'.method,
                                   options'.headers, options'.body) >>
            /\ promise' = Pending
            /\ surfaced' = Pending
            /\ pc' = "fetch"

doBasicRequest(url, opts, hasApi, requestType, hook) ==
    /\ pc = "idle"
    /\ BasicStart("doBasicRequest", url, opts, hasApi, requestType, hook)
    /\ UNCHANGED <<codec, token, apiUrl>>

\* FetchRejects that tries the request again instead of reporting the failure
FetchRejects_Retry(err) ==
    /\ pc = "fetch"
    /\ log' = log \o << SettledEntry("fetch.rejected", err),
                        RequestEntry("fetch", call.url, options.method,
                                     options.headers, options.body) >>
    /\ UNCHANGED <<codec, token, apiUrl, pc, call, options, response, promise,
                   surfaced>>

\* fetch rejects
FetchRejects(err) ==
    /\ pc = "fetch"
    /\ log' = Append(log, SettledEntry("fetch.rejected", err))
    /\ Finish(call.op, OnFetchRejected(call.url, options, err))
    /\ UNCHANGED <<codec, token, apiUrl, call, options, response>>

\* fetch resolves with a response of the given status and body
FetchResolves(status, body) ==
    /\ pc = "fetch"
    /\ log' = Append(log, SettledEntry("fetch.resolved", Null))
    /\ response' = Response(status, body)
    /\ IF response'.ok /\ call.requestType = RequestType.None
       THEN Finish(call.op, OnOkNone(response'))
       ELSE /\ pc' = IF response'.ok
                        /\ call.requestType = RequestType.ArrayBuffer
                     THEN "arrayBuffer" ELSE "text"
            /\ UNCHANGED <<promise, surfaced>>
    /\ UNCHANGED <<codec, token, apiUrl, call, options>>

\* response.arrayBuffer() resolves
ArrayBufferResolves ==
    /\ pc = "arrayBuffer"
    /\ log' = Append(log, SettledEntry("arrayBuffer.resolved", Null))
    /\ Finish(call.op, OnOkArrayBuffer(JBytes(response.body)))
    /\ UNCHANGED <<codec, token, apiUrl, call, options, response>>

\* response.arrayBuffer() rejects
ArrayBufferRejects(err) ==
    /\ pc = "arrayBuffer"
    /\ log' = Append(log, SettledEntry("arrayBuffer.rejected", err))
    /\ Finish(call.op, OnOkArrayBufferFailed(call.url, options, response, err))
    /\ UNCHANGED <<codec, token, apiUrl, call, options, response>>

\* response.text() resolves
TextResolves ==
    /\ pc = "text"
    /\ log' = Append(log, SettledEntry("text.resolved", Null))
    /\ Finish(call.op,
              IF response.ok
              THEN OnOkText(call.requestType, call.url, options, response,
                            response.body)
              ELSE OnErrorText(call.url, options, response, response.body))
    /\ UNCHANGED <<codec, token, apiUrl, call, options, response>>

\* response.text() rejects
TextRejects(err) ==
    /\ pc = "text"
    /\ log' = Append(log, SettledEntry("text.rejected", err))
    /\ Finish(call.op, OnTextFailed(call.url, options, response, err))
    /\ UNCHANGED <<codec, token, apiUrl, call, options, response>>

\* ------------------------------------------------------------------------
\* doFormDataRequest(url, options, formData, apiClass, requestType)
\* ------------------------------------------------------------------------

\* Up to the await of axios.  The function is async: its throw on a missing
\* apiClass is a rejection of the promise it returns.
FormDataStart(op, url, opts, formData, hasApi, requestType, hook) ==
    /\ call' = Call(op, url, opts, hasApi, requestType, hook, formData)
    /\ response' = NullResponse
    /\ IF ~hasApi
       THEN /\ UNCHANGED <<options, log>>
            /\ Finish(op, RejectPlain("Provide apiClass to doFormDataRequest"))
       ELSE /\ options' = PrepareOptions(hook, opts, url)
            /\ log' = log \o
                   << HookEntry(opts, url),
                      RequestEntry("axios", url,
                                   IF TruthyStr(options'.method)
                                   THEN options'.method ELSE "GET",
                                   options'.headers, formData) >>
            /\ promise' = Pending
            /\ surfaced' = Pending
            /\ pc' = "axios"

doFormDataRequest(url, opts, formData, hasApi, requestType, hook) ==
    /\ pc = "idle"
    /\ FormDataStart("doFormDataRequest", url, opts, formData, hasApi,
                     requestType, hook)
    /\ UNCHANGED <<codec, token, apiUrl>>

\* The caller aborts the signal it holds (for instance the one it put into
\* options.signal) while axios is awaited.  The axios config is built from
\* url, method, data, headers and responseType only: no signal and no cancel
\* token reaches axios, so the request goes on as before.
callerAborts ==
    /\ pc = "axios"
    /\ ~\E i \in 1..Len(log) : log[i].ev = "caller.abort"
    /\ log' = Append(log, SettledEntry("caller.abort", "AbortSignal"))
    /\ UNCHANGED <<codec, token, apiUrl, pc, call, options, response, promise,
                   surfaced>>

\* axios resolves: the status passed its validateStatus (2xx)
AxiosResolves(status, body) ==
    /\ pc = "axios"
    /\ status >= 200 /\ status < 300
    /\ log' = Append(log, [ev |-> "axios.resolved", exc |-> Null,
                           status |-> status, body |-> body])
    /\ Finish(call.op,
              OnAxiosResponse(call.url, options, status,
                  AxiosData(axiosResponseType(call.requestType), body)))
    /\ UNCHANGED <<codec, token, apiUrl, call, options, response>>

\* axios rejects with an error that carries the response of a status outside
\* 2xx
AxiosRejectsWithResponse(status, body) ==
    /\ pc = "axios"
    /\ ~(status >= 200 /\ status < 300)
    /\ log' = Append(log, [ev |-> "axios.rejected", exc |-> "AxiosError",
                           hasResponse |-> TRUE, status |-> status,
                           body |-> body])
    /\ Finish(call.op,
              OnAxiosRejected(call.url, options,
                  AxiosError(TRUE, status,
                      AxiosData(axiosResponseType(call.requestType), body))))
    /\ UNCHANGED <<codec, token, apiUrl, call, options, response>>

\* axios rejects with an error that carries no response
AxiosRejectsNoResponse ==
    /\ pc = "axios"
    /\ log' = Append(log, [ev |-> "axios.rejected", exc |-> "AxiosError",
                           hasResponse |-> FALSE, status |-> UNKNOWN_CODE,
                           body |-> ""])
    /\ Finish(call.op,
              OnAxiosRejected(call.url, options,
                              AxiosError(FALSE, UNKNOWN_CODE, JUndefined)))
    /\ UNCHANGED <<codec, token, apiUrl, call, options, response>>

\* ------------------------------------------------------------------------
\* assert and the endpoint methods
\* ------------------------------------------------------------------------

\* utils.assert(val, url, message, detail) called on its own
assert(val, url, message, detail) ==
    /\ pc = "idle"
    /\ call' = [Call("assert", url, NullOptions, FALSE, Null, "default",
                     Undefined)
                  EXCEPT !.args = <<val, message, detail>>]
    /\ surfaced' = assertOutcome(val, url, message, detail)
    /\ pc' = "done"
    /\ UNCHANGED <<codec, token, apiUrl, options, log, response, promise>>

\* An endpoint method that requires the token: the assert, then the request.
\* The method is async, so the throw of assert rejects its promise.
TokenEndpoint(op, path, opts, requestType, hook) ==
    LET url == Url(apiUrl, path)
        guard == assertOutcome(token # Undefined, url, "Reauthenticate",
                               "No token is registered.")
    IN  /\ pc = "idle"
        /\ IF guard.state = "thrown"
           THEN /\ call' = Call(op, url, opts, TRUE, requestType, hook,
                                Undefined)
                /\ surfaced' = RejectError(guard.err)
                /\ pc' = "done"
                /\ UNCHANGED <<options, log, response, promise>>
           ELSE BasicStart(op, url, opts, TRUE, requestType, hook)
        /\ UNCHANGED <<codec, token, apiUrl>>

\* PenguinModAPIUsers.blockUser
blockUser(hook) ==
    TokenEndpoint("blockUser", "/v1/users/blockuser",
                  TokenPostOptions(token), RequestType.JSON, hook)

\* PenguinModAPIMisc.setProfanityList
setProfanityList(hook) ==
    TokenEndpoint("setProfanityList", "/v1/misc/setProfanityList",
                  TokenPostOptions(token), RequestType.JSON, hook)

\* logout that forgets the token of the client as it sends the request
logout_ClearsToken(hook) ==
    /\ pc = "idle"
    /\ BasicStart("logout", Url(apiUrl, "/v1/users/logout"),
                  TokenPostOptions(token), TRUE, RequestType.None, hook)
    /\ token' = Undefined
    /\ UNCHANGED <<codec, apiUrl>>

\* PenguinModAPIUsers.logout: no assert on the token, which goes into the body
logout(hook) ==
    /\ pc = "idle"
    /\ BasicStart("logout", Url(apiUrl, "/v1/users/logout"),
                  TokenPostOptions(token), TRUE, RequestType.None, hook)
    /\ UNCHANGED <<codec, token, apiUrl>>

\* PenguinModAPIUsers.setPFP: no assert on the token, which goes into the url
setPFP(formData, hook) ==
    /\ pc = "idle"
    /\ FormDataStart("setPFP",
                     TokenUrl(apiUrl, "/v1/users/setpfp", token),
                     PostOptions, formData, TRUE, RequestType.JSON, hook)
    /\ UNCHANGED <<codec, token, apiUrl>>

\* The caller has its result; the client is ready for the next call.
Return ==
    /\ pc = "done"
    /\ pc' = "idle"
    /\ call' = NoCall
    /\ options' = NullOptions
    /\ log' = <<>>
    /\ response' = NullResponse
    /\ promise' = Pending
    /\ surfaced' = Pending
    /\ UNCHANGED <<codec, token, apiUrl>>

Next ==
    \/ \E t \in Tokens : setToken(t)
    \/ \E u \in ApiUrls : setApiUrl(u)
    \/ \E opts \in CallerOptions, hasApi \in BOOLEAN,
          requestType \in RequestTypes, hook \in Hooks :
          doBasicRequest(Url(apiUrl, "/v1"), opts, hasApi, requestType, hook)
    \/ \E err \in FetchErrors : FetchRejects(err)
    \/ \E status \in Statuses, body \in Bodies : FetchResolves(status, body)
    \/ ArrayBufferResolves
    \/ \E err \in ReadErrors : ArrayBufferRejects(err)
    \/ TextResolves
    \/ \E err \in ReadErrors : TextRejects(err)
    \/ \E opts \in CallerOptions, formData \in FormDatas, hasApi \in BOOLEAN,
          requestType \in RequestTypes, hook \in Hooks :
          doFormDataRequest(Url(apiUrl, "/v1/users/setpfp"), opts, formData,
                            hasApi, requestType, hook)
    \/ \E status \in Statuses, body \in Bodies : AxiosResolves(status, body)
    \/ \E status \in Statuses, body \in Bodies :
          AxiosRejectsWithResponse(status, body)
    \/ AxiosRejectsNoResponse
    \/ callerAborts
    \/ \E val \in BOOLEAN, message \in {Undefined, "Reauthenticate"},
          detail \in {Undefined, "No token is registered."} :
          assert(val, Url(apiUrl, "/v1"), message, detail)
    \/ \E hook \in Hooks : blockUser(hook)
    \/ \E hook \in Hooks : setProfanityList(hook)
    \/ \E formData \in FormDatas, hook \in Hooks : setPFP(formData, hook)
    \/ \E hook \in Hooks : logout(hook)
    \/ Return

Spec == Init /\ [][Next]_vars

\* The promise of fetch settles, and so does the promise of the body read
\* (text() or arrayBuffer()).
FetchSettles ==
    \/ \E err \in FetchErrors : FetchRejects(err)
    \/ \E status \in Statuses, body \in Bodies : FetchResolves(status, body)
BodyReadSettles ==
    \/ ArrayBufferResolves
    \/ \E err \in ReadErrors : ArrayBufferRejects(err)
    \/ TextResolves
    \/ \E err \in ReadErrors : TextRejects(err)

\* The program under the assumption that every promise of fetch and of a
\* body read eventually settles; the then and catch callbacks run when it
\* does.
LiveSpec == Spec /\ WF_vars(FetchSettles) /\ WF_vars(BodyReadSettles)

\* ------------------------------------------------------------------------
\* The query codec on its own: a query and a filter are chosen, then
\* extractQuery, createQuery and extractQuery again are applied in turn.
\* ------------------------------------------------------------------------

CodecInit ==
    /\ token = Undefined
    /\ apiUrl = "https://projects.penguinmod.com/api"
    /\ Fresh
    /\ \E query \in QueryStrings, limitTags \in LimitTags,
          whitelist \in Whitelists :
          codec = [NoQuery EXCEPT !.pc = "input", !.query = query,
                                  !.limitTags = limitTags,
                                  !.whitelist = whitelist]

\* extractQuery(query, limitTags, whitelist)
CallExtractQuery ==
    /\ codec.pc = "input"
    /\ codec' = [codec EXCEPT
                    !.pc = "extracted",
                    !.extracted = extractQuery(codec.query, codec.limitTags,
                                               codec.whitelist)]
    /\ UNCHANGED <<token, apiUrl, pc, call, options, log, response, promise,
                   surfaced>>

\* createQuery(the SearchQuery extracted)
CallCreateQuery ==
    /\ codec.pc = "extracted"
    /\ codec' = [codec EXCEPT !.pc = "created",
                              !.created = createQuery(codec.extracted)]
    /\ UNCHANGED <<token, apiUrl, pc, call, options, log, response, promise,
                   surfaced>>

\* extractQuery(the string created, limitTags, whitelist)
CallExtractQueryAgain ==
    /\ codec.pc = "created"
    /\ codec' = [codec EXCEPT
                    !.pc = "again",
                    !.again = extractQuery(codec.created, codec.limitTags,
                                           codec.whitelist)]
    /\ UNCHANGED <<token, apiUrl, pc, call, options, log, response, promise,
                   surfaced>>

CodecNext ==
    \/ CallExtractQuery
    \/ CallCreateQuery
    \/ CallExtractQueryAgain

CodecSpec == CodecInit /\ [][CodecNext]_vars

\* ------------------------------------------------------------------------
\* Observations on the current call
\* ------------------------------------------------------------------------

HookCalls == SelectSeq(log, LAMBDA e : e.ev = "injectOptions")
Requests == SelectSeq(log, LAMBDA e : e.ev \in {"fetch", "axios"})
Happened(ev) == \E i \in 1..Len(log) : log[i].ev = ev
LastEntry == log[Len(log)]
\* The call is over and it went through doBasicRequest up to fetch
BasicDone == pc = "done" /\ Happened("fetch")
\* The call is over and it went through doFormDataRequest up to axios
FormDataDone == pc = "done" /\ Happened("axios")
\* The operation failed (rejected promise or synchronous throw)
Failed(o) == o.state \in {"rejected", "thrown"}

\* ------------------------------------------------------------------------
\* Properties
\* ------------------------------------------------------------------------

\* The message a body of a failed response stands for: its `error` field
\* when it is JSON with a truthy `error` field, else the body, else "Unknown".
MessageOfBody(text) ==
    IF JSONparse(text).ok /\ JSONparse(text).val.t = "object"
       /\ TruthyStr(JSONparse(text).val.error)
    THEN JSONparse(text).val.error
    ELSE IF text # "" THEN text ELSE "Unknown"

C2_ParseJSONFailed ==
    (BasicDone /\ response.kind = "response" /\ response.ok
        /\ call.requestType = RequestType.JSON
        /\ LastEntry.ev = "text.resolved"
        /\ ~JSONparse(response.body).ok)
    => /\ promise.state = "rejected"
       /\ promise.kind = "PenguinModAPIError"
       /\ promise.err.message = "ParseJSONFailed"
       /\ promise.err.parsing = TRUE
       /\ promise.err.data = JString(response.body)
       /\ promise.err.cause = "SyntaxError"
       /\ promise.err.httpCode = response.status

C2_Witness ==
    /\ BasicDone /\ response.kind = "response" /\ response.status = 200
    /\ response.body = "not-json"
    /\ call.requestType = RequestType.JSON
    /\ LastEntry.ev = "text.resolved"
    /\ promise.state = "rejected"
    /\ promise.err.data = JString("not-json")

\* C3: when fetch itself rejects, doBasicRequest rejects with "FetchFailed",
\* httpCode UNKNOWN_CODE (0), parsing false, data null, response null and
\* the original exception as cause.
C3_FetchFailed ==
    (BasicDone /\ LastEntry.ev = "fetch.rejected")
    => /\ promise.state = "rejected"
       /\ promise.kind = "PenguinModAPIError"
       /\ promise.err.message = "FetchFailed"
       /\ promise.err.httpCode = UNKNOWN_CODE
       /\ promise.err.httpCode = 0
       /\ promise.err.parsing = FALSE
       /\ promise.err.data = JNull
       /\ promise.err.response = NullResponse
       /\ promise.err.cause = LastEntry.exc
       /\ promise.err.cause \in FetchErrors

C3_Witness ==
    /\ BasicDone /\ LastEntry.ev = "fetch.rejected"
    /\ response = NullResponse
    /\ promise.state = "rejected"
    /\ promise.err.message = "FetchFailed"

\* C4: on an ok response doBasicRequest resolves with the response itself
\* for None (no body read), with the body string for Text, with the parsed
\* value for JSON (also when the parsed value has an `error` field) and with
\* the bytes for ArrayBuffer.
C4_SuccessResolution ==
    (BasicDone /\ response.kind = "response" /\ response.ok)
    => /\ call.requestType = RequestType.None
          => /\ promise = ResolveResponse(response)
             /\ LastEntry.ev = "fetch.resolved"
       /\ (call.requestType = RequestType.Text
              /\ LastEntry.ev = "text.resolved")
          => promise = ResolveValue(JString(response.body))
       /\ (call.requestType = RequestType.JSON
              /\ LastEntry.ev = "text.resolved"
              /\ JSONparse(response.body).ok)
          => promise = ResolveValue(JSONparse(response.body).val)
       /\ (call.requestType = RequestType.ArrayBuffer
              /\ LastEntry.ev = "arrayBuffer.resolved")
          => promise = ResolveValue(JBytes(response.body))

C4_Witness ==
    /\ BasicDone /\ response.kind = "response" /\ response.status = 200
    /\ response.body = "{\"error\":\"ProjectNotFound\"}"
    /\ call.requestType = RequestType.JSON
    /\ promise.state = "resolved"
    /\ promise.val.error = "ProjectNotFound"

\* The outcome o is a failure carrying a PenguinModAPIError
IsApiError(o) == Failed(o) /\ o.kind = "PenguinModAPIError"

BodyReadOrParseFailed ==
    /\ pc = "done" /\ log # <<>>
    /\ \/ LastEntry.ev \in {"text.rejected", "arrayBuffer.rejected"}
       \/ /\ LastEntry.ev = "text.resolved"
          /\ response.ok
          /\ call.requestType = RequestType.JSON
          /\ ~JSONparse(response.body).ok

\* C6 (as claimed): parsing is true iff the error was raised while
\* interpreting the body of a response with a success status.
C6_ParsingOnlyOnSuccessStatus ==
    pc = "done"
    => \A o \in {promise, surfaced} :
          IsApiError(o)
          => (o.err.parsing
                 <=> (BodyReadOrParseFailed /\ response.kind = "response"
                         /\ response.ok))

\* C6 (amended): parsing is true iff the error was raised while reading or
\* parsing the body of a response that was obtained, whatever its status; it
\* is false for a transport failure, for an error read from the body of a
\* response that is not ok, and for a failed assert.
C6_ParsingIffBodyFailure ==
    pc = "done"
    => \A o \in {promise, surfaced} :
          IsApiError(o)
          => /\ o.err.parsing <=> BodyReadOrParseFailed
             /\ o.err.parsing => response.kind = "response"

C6_Witness ==
    /\ BasicDone /\ response.kind = "response" /\ response.status = 404
    /\ LastEntry.ev = "text.rejected"
    /\ IsApiError(promise)
    /\ promise.err.message = "ParseTextFailed"
    /\ promise.err.parsing = TRUE

\* The call ended in an exception of the transport or of the runtime.
GenuineException ==
    /\ pc = "done" /\ log # <<>>
    /\ \/ LastEntry.ev \in {"fetch.rejected", "text.rejected",
                            "arrayBuffer.rejected"}
       \/ /\ LastEntry.ev = "text.resolved"
          /\ response.ok
          /\ call.requestType = RequestType.JSON
          /\ ~JSONparse(response.body).ok
       \/ LastEntry.ev = "axios.rejected" /\ ~LastEntry.hasResponse

\* The exception that ended the call
ExceptionRaised ==
    IF LastEntry.ev = "text.resolved" THEN "SyntaxError" ELSE LastEntry.exc

\* The remote service answered, and its answer is the error.
RemoteReportedError ==
    /\ pc = "done" /\ log # <<>>
    /\ \/ LastEntry.ev = "text.resolved" /\ ~response.ok
       \/ LastEntry.ev = "axios.rejected" /\ LastEntry.hasResponse
       \/ LastEntry.ev = "axios.resolved"

\* C7: cause holds the underlying exception exactly when a transport or
\* runtime exception occurred; it is null when the remote service reported
\* an application error and when a precondition assertion failed.
C7_CauseIffException ==
    pc = "done"
    => \A o \in {promise, surfaced} :
          IsApiError(o)
          => /\ GenuineException => o.err.cause = ExceptionRaised
             /\ RemoteReportedError => o.err.cause \in {Null, Undefined}
             /\ Requests = <<>> => o.err.cause = Null

\* C8: assert with a falsy val throws a PenguinModAPIError with the given
\* message and detail (defaults "AssertFailed", "Assert failed."), with the
\* assert-failed sentinel of the error class as httpCode, parsing false, data
\* null and cause null, and makes no request; with a truthy val it returns
\* and does nothing.
C8_AssertThrowsSentinel ==
    (pc = "done" /\ call.op = "assert")
    => IF ~call.args[1]
       THEN /\ surfaced.state = "thrown"
            /\ surfaced.kind = "PenguinModAPIError"
            /\ surfaced.err.message =
                  (IF call.args[2] = Undefined THEN "AssertFailed"
                   ELSE call.args[2])
            /\ surfaced.err.detail =
                  (IF call.args[3] = Undefined THEN "Assert failed."
                   ELSE call.args[3])
            /\ surfaced.err.httpCode = ASSERT_FAILED
            /\ surfaced.err.httpCode # UndefinedNumber
            /\ surfaced.err.parsing = FALSE
            /\ surfaced.err.data = JNull
            /\ surfaced.err.cause = Null
            /\ Requests = <<>>
       ELSE surfaced = Returned /\ log = <<>>

HookResult == injectOptions(call.hook, call.options, call.url)

\* The hook ran once, with (options, url), before the request was issued.
HookRanOnceBefore ==
    /\ Len(HookCalls) = 1
    /\ HookCalls[1] = HookEntry(call.options, call.url)
    /\ \A i, j \in 1..Len(log) :
          (log[i].ev = "injectOptions" /\ log[j].ev \in {"fetch", "axios"})
          => i < j

\* The headers sent for the options o: its headers, and the tooling header
HeadersSentFor(o) ==
    [(IF o.hasHeaders THEN o.headers ELSE EmptyHeaders)
        EXCEPT ![ToolingHeader] = ToolingValue]

\* C10 (as claimed): in every call that issues a request the hook is invoked
\* exactly once with (options, url) before the request, and when it returns
\* options the request is sent with their method, headers and body.
C10_HookResultSent ==
    Len(Requests) > 0
    => /\ HookRanOnceBefore
       /\ HookResult.kind = "object"
          => /\ Requests[1].method =
                   (IF Requests[1].ev = "axios" /\ ~TruthyStr(HookResult.method)
                    THEN "GET" ELSE HookResult.method)
             /\ Requests[1].headers = HeadersSentFor(HookResult)
             /\ Requests[1].body = HookResult.body

\* C10 (amended): as claimed for the hook and for the method and headers;
\* doBasicRequest sends the body of the returned options, doFormDataRequest
\* always sends its formData argument as the body.
C10_HookResultSentExceptFormBody ==
    Len(Requests) > 0
    => /\ HookRanOnceBefore
       /\ HookResult.kind = "object"
          => /\ Requests[1].method =
                   (IF Requests[1].ev = "axios" /\ ~TruthyStr(HookResult.method)
                    THEN "GET" ELSE HookResult.method)
             /\ Requests[1].headers = HeadersSentFor(HookResult)
             /\ Requests[1].ev = "fetch"
                => Requests[1].body = HookResult.body
             /\ Requests[1].ev = "axios"
                => Requests[1].body = call.formData

C10_Witness ==
    /\ Len(Requests) = 1
    /\ Requests[1].ev = "fetch"
    /\ call.hook = "spoof"
    /\ call.options = JsonPostOptions
    /\ Requests[1].method = "PUT"
    /\ Requests[1].body = "hooked body"

\* C11: a call of doBasicRequest or doFormDataRequest issues at most one
\* network request, its promise is settled when the call is over, and once
\* settled the promise keeps its resolution or rejection: nothing is retried
\* and nothing is reported twice.
C11_OneRequestSettledOnce ==
    /\ [](/\ Len(Requests) <= 1
          /\ (pc = "done" /\ Len(Requests) = 1)
             => promise.state \in {"resolved", "rejected"})
    /\ [][(promise.state # "pending" /\ pc' # "idle")
             => promise' = promise]_vars

C11_Witness ==
    /\ BasicDone /\ response.kind = "response" /\ response.ok
    /\ call.requestType = RequestType.JSON
    /\ ~JSONparse(response.body).ok
    /\ LastEntry.ev = "text.resolved"
    /\ Len(Requests) = 1
    /\ promise.state = "rejected"

\* The operations that read the client's token and apiUrl
EndpointOps == {"blockUser", "setProfanityList", "setPFP", "logout"}

\* The token a request carries: in its url (setPFP) or in its JSON body
RequestCarries(req, t) ==
    IF req.ev = "axios" THEN req.url.token = t ELSE req.body = TokenBody(t)

FormBodySeen ==
    LET data == AxiosData(axiosResponseType(call.requestType), LastEntry.body)
    IN  IF data.t = "string" THEN safeParseJSON(data.s) ELSE data

\* The server answered the multipart request (with any status).
FormAnswered ==
    /\ FormDataDone
    /\ \/ LastEntry.ev = "axios.resolved"
       \/ LastEntry.ev = "axios.rejected" /\ LastEntry.hasResponse

\* C13: for a status outside 2xx and a body, doFormDataRequest rejects with
\* an error that agrees on message, httpCode, parsing and data with the error
\* doBasicRequest rejects with for the same status and body.
C13_SameErrorShape ==
    (FormAnswered /\ LastEntry.ev = "axios.rejected")
    => LET basic == OnErrorText(call.url, options,
                                Response(LastEntry.status, LastEntry.body),
                                LastEntry.body)
       IN  /\ promise.state = basic.state
           /\ IsApiError(promise)
           /\ promise.err.message = basic.err.message
           /\ promise.err.httpCode = basic.err.httpCode
           /\ promise.err.parsing = basic.err.parsing
           /\ promise.err.data = basic.err.data

\* C14: whenever the body of the answer to doFormDataRequest carries an
\* error field, under any status, the promise is rejected with a
\* PenguinModAPIError whose message is that field and whose parsing is false.
C14_BodyErrorIsMessage ==
    (FormAnswered /\ Truthy(FormBodySeen) /\ TruthyStr(FormBodySeen.error))
    => /\ promise.state = "rejected"
       /\ IsApiError(promise)
       /\ promise.err.message = FormBodySeen.error
       /\ promise.err.parsing = FALSE

\* C15: a doFormDataRequest call whose caller aborted while the request was
\* in flight is rejected with message "FormDataRequestAborted", httpCode
\* UNKNOWN_CODE and the cancellation signal as cause.
C15_AbortRejectsAborted ==
    (FormDataDone /\ Happened("caller.abort"))
    => /\ promise.state = "rejected"
       /\ IsApiError(promise)
       /\ promise.err.message = "FormDataRequestAborted"
       /\ promise.err.httpCode = UNKNOWN_CODE
       /\ promise.err.cause = "AbortSignal"

FieldEqual(a, b) == a.vals = b.vals

\* C17: extractQuery applied to createQuery of an extracted query, under the
\* same limitTags and whitelist, gives a SearchQuery field-equal to the
\* extracted one.
C17_RoundTripFixedPoint ==
    codec.pc = "again" => FieldEqual(codec.again, codec.extracted)

C17_Witness ==
    /\ codec.pc = "again"
    /\ codec.query = <<"a", " ", "a", ":">>
    /\ codec.created = <<"a", ":", "true", " ", "a">>
    /\ codec.again.vals[<<"a">>] = QBoolean(TRUE)
    /\ codec.again.vals[<<"query">>] = QString(<<"a">>)

\* The tokens of the query given to extractQuery
QueryWords == split(codec.query, " ")
HasColon(word) == \E i \in 1..Len(word) : word[i] = ":"
\* The text before the first colon of a word and the text after it
NameOf(word) ==
    LET i == CHOOSE i \in 1..Len(word) :
                 word[i] = ":" /\ \A j \in 1..(i - 1) : word[j] # ":"
    IN  SubSeq(word, 1, i - 1)
RawOf(word) ==
    LET i == CHOOSE i \in 1..Len(word) :
                 word[i] = ":" /\ \A j \in 1..(i - 1) : word[j] # ":"
    IN  SubSeq(word, i + 1, Len(word))
\* No filter is given: extractQuery(s, null, null)
NoFilter == codec.limitTags = NullTags /\ codec.whitelist = QUndefined
\* The free text of the extracted query, and its words
FreeText == codec.extracted.vals[<<"query">>].s
FreeWords == split(FreeText, " ")

\* The token is in the extracted query: as the value of its modifier, or as
\* a word of the free text.
Represented(word) ==
    IF HasColon(word)
    THEN /\ NameOf(word) \in DOMAIN codec.extracted.vals
         /\ codec.extracted.vals[NameOf(word)] = castedValue(RawOf(word))
    ELSE \E i \in 1..Len(FreeWords) : FreeWords[i] = word

\* A token as createQuery writes it back: the value of a flag normalised
Normalised(word) ==
    IF HasColon(word)
    THEN NameOf(word) \o <<":">> \o castedValue(RawOf(word)).s
    ELSE word

Count(seq, x) == Cardinality({i \in 1..Len(seq) : seq[i] = x})
\* The same non-empty tokens, each as many times, in any order
SameTokens(a, b) ==
    \A x \in {a[i] : i \in 1..Len(a)} \cup {b[i] : i \in 1..Len(b)} :
        x # <<>> => Count(a, x) = Count(b, x)

\* C18 (as claimed): without a filter every token of the query is
\* represented in the extracted query, and the string createQuery builds
\* from it has the same tokens as the query up to order and the
\* normalisation of flag values.
C18_Lossless ==
    (codec.pc \in {"created", "again"} /\ NoFilter)
    => /\ \A i \in 1..Len(QueryWords) : Represented(QueryWords[i])
       /\ SameTokens([i \in 1..Len(QueryWords) |-> Normalised(QueryWords[i])],
                     split(codec.created, " "))

\* The token at position i is kept: it has no colon, or its modifier is not
\* "query" and no later token has the same modifier.
Kept(i) ==
    \/ ~HasColon(QueryWords[i])
    \/ /\ NameOf(QueryWords[i]) # <<"query">>
       /\ \A j \in (i + 1)..Len(QueryWords) :
              HasColon(QueryWords[j])
              => NameOf(QueryWords[j]) # NameOf(QueryWords[i])

\* C18 (amended): without a filter every token is represented, except a
\* modifier token named "query" and a modifier token whose name a later
\* modifier token repeats; the string createQuery builds has exactly the
\* other non-empty tokens, up to order and the normalisation of flag values.
C18_LosslessExceptOverwritten ==
    (codec.pc \in {"created", "again"} /\ NoFilter)
    => /\ \A i \in 1..Len(QueryWords) : Kept(i) => Represented(QueryWords[i])
       /\ SameTokens(
              LET kept == SelectSeq([i \in 1..Len(QueryWords) |->
                                        <<i, QueryWords[i]>>],
                                    LAMBDA e : Kept(e[1]))
              IN  [i \in 1..Len(kept) |-> Normalised(kept[i][2])],
              split(codec.created, " "))

C18_Witness ==
    /\ codec.pc = "created" /\ NoFilter
    /\ codec.query = <<"query", ":", "a", " ">>
    /\ ~Kept(1)
    /\ FreeText = <<>>
    /\ codec.created = <<>>

\* extractQuery has run on the query.
Extracted == codec.pc \in {"extracted", "created", "again"}

\* The filter admits the modifier: no limitTags, or a whitelist that has it,
\* or a blacklist that has it not.
Admits(modifier) ==
    \/ codec.limitTags.kind = "null"
    \/ /\ codec.limitTags.kind = "array"
       /\ codec.whitelist = QBoolean(TRUE)
       /\ \E i \in 1..Len(codec.limitTags.items) :
              codec.limitTags.items[i] = modifier
    \/ /\ codec.limitTags.kind = "array"
       /\ codec.whitelist # QBoolean(TRUE)
       /\ \A i \in 1..Len(codec.limitTags.items) :
              codec.limitTags.items[i] # modifier

\* The token at position i is an admitted modifier token that is kept.
Stored(i) ==
    /\ HasColon(QueryWords[i])
    /\ Admits(NameOf(QueryWords[i]))
    /\ Kept(i)

\* C19 (as claimed): an admitted modifier token is split on its first colon
\* and stored under the text before it with the text after it coerced:
\* "true" to true, "false" to false, the empty string to true, and any other
\* string unchanged.
C19_SplitAndCoerce ==
    Extracted
    => \A i \in 1..Len(QueryWords) :
           Stored(i)
           => LET raw == RawOf(QueryWords[i])
              IN  /\ NameOf(QueryWords[i]) \in DOMAIN codec.extracted.vals
                  /\ codec.extracted.vals[NameOf(QueryWords[i])]
                     = IF raw = <<"true">> THEN QBoolean(TRUE)
                       ELSE IF raw = <<"false">> THEN QBoolean(FALSE)
                       ELSE IF raw = <<>> THEN QBoolean(TRUE)
                       ELSE QString(raw)

\* C19 (amended): as above, but a raw value made of whitespace only is
\* coerced to true like the empty string.
C19_SplitAndCoerceBlank ==
    Extracted
    => \A i \in 1..Len(QueryWords) :
           Stored(i)
           => LET raw == RawOf(QueryWords[i])
              IN  /\ NameOf(QueryWords[i]) \in DOMAIN codec.extracted.vals
                  /\ codec.extracted.vals[NameOf(QueryWords[i])]
                     = IF raw = <<"true">> THEN QBoolean(TRUE)
                       ELSE IF raw = <<"false">> THEN QBoolean(FALSE)
                       ELSE IF \A j \in 1..Len(raw) : raw[j] \in Whitespace
                       THEN QBoolean(TRUE)
                       ELSE QString(raw)

C19_Witness ==
    /\ codec.pc = "extracted" /\ NoFilter
    /\ codec.query = <<"a", ":", "a", ":">>
    /\ codec.extracted.vals[<<"a">>] = QString(<<"a", ":">>)

\* C20: the filter admits every modifier without limitTags, only the
\* modifiers in limitTags when whitelist is true, and only the modifiers not
\* in limitTags otherwise; the free text is made of the tokens without a
\* colon and of the rejected modifier tokens, whole and in order, and the
\* extracted query has an entry for the admitted modifiers only.
C20_Admission ==
    Extracted
    => LET rejected(word) == ~HasColon(word) \/ ~Admits(NameOf(word))
           text == SelectSeq(QueryWords, rejected)
       IN  /\ FreeText = join(text, " ")
           /\ DOMAIN codec.extracted.vals
              = {<<"query">>}
                \cup {NameOf(QueryWords[i]) :
                         i \in {j \in 1..Len(QueryWords) :
                                   ~rejected(QueryWords[j])}}

C20_Witness ==
    /\ codec.pc = "extracted"
    /\ codec.limitTags = Tags(<< <<"a">> >>)
    /\ codec.whitelist = QBoolean(TRUE)
    /\ codec.query = <<"query", ":", " ", "a">>
    /\ FreeText = <<"query", ":", " ", "a">>
    /\ DOMAIN codec.extracted.vals = {<<"query">>}

\* The tokens of a string split on whitespace: its longest runs of
\* characters that are not whitespace.  current is the run being read.
RECURSIVE WhitespaceTokens(_, _)
WhitespaceTokens(str, current) ==
    LET done == IF current = <<>> THEN <<>> ELSE <<current>>
    IN  IF str = <<>> THEN done
        ELSE IF Head(str) \in Whitespace
        THEN done \o WhitespaceTokens(Tail(str), <<>>)
        ELSE WhitespaceTokens(Tail(str), Append(current, Head(str)))

\* The token goes to the free text: it has no colon or the filter rejects it.
IsFreeText(word) == ~HasColon(word) \/ ~Admits(NameOf(word))

\* C21 (as claimed): the query field is the free-text tokens of the input
\* split on whitespace, in order, joined by single spaces.
C21_WhitespaceSplit ==
    Extracted
    => FreeText
       = join(SelectSeq(WhitespaceTokens(codec.query, <<>>), IsFreeText), " ")

\* The positions of the space characters of the query, and the pieces of the
\* query between them: one more piece than there are spaces, empty where two
\* spaces are adjacent or a space is first or last.
SpacePositions == {i \in 1..Len(codec.query) : codec.query[i] = " "}
SpaceAt(k) ==
    IF k = 0 THEN 0
    ELSE IF k > Cardinality(SpacePositions) THEN Len(codec.query) + 1
    ELSE CHOOSE i \in SpacePositions :
             Cardinality({j \in SpacePositions : j < i}) = k - 1
SpaceTokens ==
    [k \in 1..(Cardinality(SpacePositions) + 1) |->
        SubSeq(codec.query, SpaceAt(k - 1) + 1, SpaceAt(k) - 1)]

\* C21 (amended): the input is split at every space character and at no
\* other whitespace, empty tokens included, and the query field is the
\* free-text tokens in order joined by single spaces.
C21_SpaceSplit ==
    Extracted
    => FreeText = join(SelectSeq(SpaceTokens, IsFreeText), " ")

C21_Witness ==
    /\ codec.pc = "extracted" /\ NoFilter
    /\ codec.query = <<"a", " ", " ", "a">>
    /\ Len(SpaceTokens) = 3
    /\ FreeText = <<"a", " ", " ", "a">>

\* createQuery has run on the extracted query.
Created == codec.pc \in {"created", "again"}

\* The "key:value" tokens of the modifiers of the extracted query, in the
\* order of its keys, booleans written as true and false
ModifierTokens ==
    LET mods == SelectSeq(codec.extracted.keys, LAMBDA k : k # <<"query">>)
        render(v) == IF v = QBoolean(TRUE) THEN <<"true">>
                     ELSE IF v = QBoolean(FALSE) THEN <<"false">>
                     ELSE v.s
    IN  [i \in 1..Len(mods) |->
            mods[i] \o <<":">> \o render(codec.extracted.vals[mods[i]])]

\* Nothing is appended for an empty query: no space at either end, and the
\* empty string when there is no modifier either.
NoStraySpace ==
    FreeText = <<>>
    => /\ codec.created # <<>>
          => /\ codec.created[1] # " "
             /\ codec.created[Len(codec.created)] # " "
       /\ ModifierTokens = <<>> => codec.created = <<>>

\* C22 (as claimed): the string created is the modifier tokens followed by
\* the words of query, joined by single spaces, with nothing appended for an
\* empty query.
C22_EmitsTokens ==
    Created
    => /\ codec.created
          = join(ModifierTokens \o WhitespaceTokens(FreeText, <<>>), " ")
       /\ NoStraySpace

\* The pieces of a string between its space characters
Pieces(str) ==
    LET at == {i \in 1..Len(str) : str[i] = " "}
        nth(k) == IF k = 0 THEN 0
                  ELSE IF k > Cardinality(at) THEN Len(str) + 1
                  ELSE CHOOSE i \in at :
                           Cardinality({j \in at : j < i}) = k - 1
    IN  [k \in 1..(Cardinality(at) + 1) |->
            SubSeq(str, nth(k - 1) + 1, nth(k) - 1)]

\* C22 (amended): as above, with the words of query being its pieces
\* between space characters, empty pieces included.
C22_EmitsTokensSpaceSplit ==
    Created
    => /\ codec.created
          = join(ModifierTokens
                 \o (IF FreeText = <<>> THEN <<>> ELSE Pieces(FreeText)), " ")
       /\ NoStraySpace

C22_Witness ==
    /\ codec.pc = "created" /\ NoFilter
    /\ codec.query = <<"a", ":", " ", "true">>
    /\ ModifierTokens = << <<"a", ":", "true">> >>
    /\ codec.created = <<"a", ":", "true", " ", "true">>

\* C23: when a request of type Text gets a response that is not ok and
\* its text is read, the message of the error is the whole text.
C23_TextErrorIsWholeText ==
    (/\ BasicDone
     /\ call.requestType = RequestType.Text
     /\ response.kind = "response" /\ ~response.ok
     /\ LastEntry.ev = "text.resolved")
    => /\ IsApiError(promise)
       /\ promise.err.message = response.body

\* A response was obtained for the request of the call.
ResponseObtained == Happened("fetch.resolved") \/ FormAnswered
\* Its status
StatusObtained ==
    IF Happened("fetch.resolved") THEN response.status ELSE LastEntry.status

\* C24: the error a request function rejects with has httpCode UNKNOWN_CODE
\* exactly when no response was obtained; when one was obtained, httpCode is
\* its status and the response field of the error holds the response.
C24_HttpCodeReflectsResponse ==
    (pc = "done" /\ log # <<>> /\ IsApiError(promise))
    => /\ promise.err.httpCode = UNKNOWN_CODE <=> ~ResponseObtained
       /\ ResponseObtained
          => /\ promise.err.httpCode = StatusObtained
             /\ promise.err.response.kind \notin {"null", "undefined"}
             /\ Happened("fetch.resolved") => promise.err.response = response

\* C25: when the response was obtained and the read of its body fails,
\* doBasicRequest rejects with parsing true, the status of the response as
\* httpCode and the exception of the read as cause; the message is
\* "ParseTextFailed" for text() (an ok response to a Text or JSON request,
\* or any response that is not ok) and "ParseArrayBufferFailed" for
\* arrayBuffer() (an ok response to an ArrayBuffer request).
C25_BodyReadFailure ==
    (BasicDone /\ LastEntry.ev \in {"text.rejected", "arrayBuffer.rejected"})
    => /\ IsApiError(promise)
       /\ promise.err.parsing = TRUE
       /\ promise.err.httpCode = response.status
       /\ promise.err.cause = LastEntry.exc
       /\ LastEntry.ev = "text.rejected"
          => /\ promise.err.message = "ParseTextFailed"
             /\ \/ ~response.ok
                \/ call.requestType \in {RequestType.Text, RequestType.JSON}
       /\ LastEntry.ev = "arrayBuffer.rejected"
          => /\ promise.err.message = "ParseArrayBufferFailed"
             /\ response.ok
             /\ call.requestType = RequestType.ArrayBuffer

C25_Witness ==
    /\ BasicDone /\ LastEntry.ev = "arrayBuffer.rejected"
    /\ response.status = 200
    /\ call.requestType = RequestType.ArrayBuffer
    /\ promise.state = "rejected"
    /\ promise.err.message = "ParseArrayBufferFailed"
    /\ promise.err.httpCode = 200

\* The method, headers and body of the options the caller passed
CallerMethod ==
    IF call.options.kind = "null" THEN Undefined ELSE call.options.method
CallerHeaders ==
    IF call.options.kind = "null" THEN EmptyHeaders ELSE call.options.headers
CallerBody ==
    IF call.options.kind = "null" THEN Undefined ELSE call.options.body

\* C26: when injectOptions returns nothing, the request is sent with the
\* method, the headers (and the tooling header) and the body of the options
\* the caller passed; doFormDataRequest sends GET for no method and the
\* formData as body.
C26_NoHookResultKeepsOptions ==
    (Len(Requests) = 1 /\ call.hook = "nothing")
    => /\ Requests[1].headers
          = [CallerHeaders EXCEPT ![ToolingHeader] = ToolingValue]
       /\ Requests[1].ev = "fetch"
          => /\ Requests[1].method = CallerMethod
             /\ Requests[1].body = CallerBody
       /\ Requests[1].ev = "axios"
          => /\ Requests[1].method
                = IF TruthyStr(CallerMethod) THEN CallerMethod ELSE "GET"
             /\ Requests[1].body = call.formData

\* The endpoint methods of the model, all documented as "Requires token"
RequiresTokenOps == {"blockUser", "setProfanityList", "setPFP", "logout"}

\* C27: a method that requires the token, called while the client has no
\* token, issues no request and rejects with a PenguinModAPIError whose
\* message is "Reauthenticate".
C27_NoTokenNoRequest ==
    [][(pc = "idle" /\ call'.op \in RequiresTokenOps /\ token = Undefined)
          => /\ Requests' = <<>>
             /\ IsApiError(surfaced')
             /\ surfaced'.err.message = "Reauthenticate"]_vars

\* C29: the token and the apiUrl of the client change only in steps that
\* are no part of a call, that is by setToken and setApiUrl: no step of an
\* endpoint call or of a request function changes them, whether the call
\* succeeds or fails.
C29_ConfigOnlyBySetters ==
    [][(token' # token \/ apiUrl' # apiUrl)
          => UNCHANGED <<pc, call, options, log, response, promise,
                         surfaced>>]_vars

C29_Witness ==
    /\ pc = "done" /\ call.op = "logout" /\ call.hook = "default"
    /\ promise.state = "resolved"
    /\ RequestCarries(Requests[1], "token-1")
    /\ token = "token-1"

C30_EventuallySettles ==
    (pc \in {"fetch", "text", "arrayBuffer"})
    ~> (pc = "done" /\ promise.state \in {"resolved", "rejected"})

C30_Witness ==
    /\ BasicDone /\ LastEntry.ev = "fetch.resolved"
    /\ response.ok /\ call.requestType = RequestType.None
    /\ promise.state = "resolved"

====
